---- MODULE Spec2Model ----
(***************************************************************************)
(* Model of the minesweeper engine and command loop of src/main.cpp.       *)
(* One step of the model is one request: one coordinate pair of a          *)
(* flag/unflag/reveal command, a restart, a bombs_left? query, or the      *)
(* is_won test the main loop makes after each command.                     *)
(***************************************************************************)
EXTENDS Integers, Sequences, FiniteSets, TLC

\* ---------------------------------------------------------------- bounds
Rows == 2
Cols == 2
\* most coordinate pairs one command carries
MaxPairs == 2
\* commands are read only while |count_flagged| (as a signed value) stays
\* within this distance of zero; it caps the otherwise unbounded counter
MaxFlagged == 2

\* ------------------------------------------------------- program constants
\* a uint32_t is kept as <<high, low>>, its two 16-bit halves, so that its
\* arithmetic wraps modulo 2^32 exactly as the program's does
HALF == 65536

Cells == (0 .. Rows - 1) \X (0 .. Cols - 1)

\* coordinate pairs a command can name that are not in the grid
\* (std::stoi accepts any int): a negative index and an index = dimension
OutPlaces == { <<0 - 1, 0>>, <<0, Cols>> }

Places == Cells \cup OutPlaces

dir4 == << <<0, 1>>, <<1, 0>>, <<0, 0 - 1>>, <<0 - 1, 0>> >>
dir8 == << <<0, 1>>, <<1, 0>>, <<0, 0 - 1>>, <<0 - 1, 0>>,
           <<1, 1>>, <<1, 0 - 1>>, <<0 - 1, 1>>, <<0 - 1, 0 - 1>> >>

VARIABLES
    grid,            \* Game::grid: cell -> [type, is_flagged, is_revealed]
    count_bombs,     \* Game::count_bombs
    count_flagged,   \* Game::count_flagged, a uint32_t as <<high, low>>
    count_revealed,  \* Game::count_revealed
    first_move,      \* Game::first_move
    state,           \* Game::state: "ACTIVE" or "OVER"
    pc,              \* position of main: "prompt", "cmd", "check", "exit", "crash"
    verb,            \* command being executed: "none", "flag", "unflag", "reveal", "restart", "bombs_left", "help"
    remaining,       \* coordinate pairs of the command not yet processed
    place,           \* coordinate pair processed last in this command
    result,          \* PlayerMove returned for it: "Success", "NA", "LosingMove", "OutBounds", "none"
    printed,         \* uint32_t written by print_bombs_left, "none" when none
    chord,           \* the last reveal request ran the loop over dir8 (lines 208-210)
    oob_write,       \* an element outside the grid has been written
    no_reveal_yet    \* no reveal request has been made in the current game

vars == << grid, count_bombs, count_flagged, count_revealed, first_move, state,
           pc, verb, remaining, place, result, chord, printed, oob_write,
           no_reveal_yet >>

game == << grid, count_bombs, count_flagged, count_revealed >>

\* ------------------------------------------------------------ pure helpers
Cell(type) == [type |-> type, is_flagged |-> FALSE, is_revealed |-> FALSE]

outside(i, j) == i < 0 \/ j < 0 \/ i >= Rows \/ j >= Cols

Card(S) == Cardinality(S)

\* the dir8 neighbours of (i, j) that are inside the grid
Neighbors8(i, j) ==
    { k \in 1 .. Len(dir8) : ~outside(i + dir8[k][1], j + dir8[k][2]) }

count_bomb_neighbors(g, i, j) ==
    IF outside(i, j) THEN 0
    ELSE Card({ k \in Neighbors8(i, j) :
                  g[<<i + dir8[k][1], j + dir8[k][2]>>].type = "BOMB" })

count_flagged_neighbors(g, i, j) ==
    IF outside(i, j) THEN 0
    ELSE Card({ k \in Neighbors8(i, j) :
                  g[<<i + dir8[k][1], j + dir8[k][2]>>].is_flagged })

is_won == count_revealed = Rows * Cols - count_bombs

\* the uint32_t with value n, for 0 <= n < 2^31
u32(n) == << n \div HALF, n % HALF >>

\* uint32_t a + b and a - b, modulo 2^32
u32_add(a, b) ==
    LET lo == a[2] + b[2]
        hi == a[1] + b[1] + (lo \div HALF)
    IN  << hi % HALF, lo % HALF >>

u32_sub(a, b) ==
    LET lo == a[2] - b[2]
        hi == a[1] - b[1] - (IF lo < 0 THEN 1 ELSE 0)
    IN  << (hi + HALF) % HALF, (lo + HALF) % HALF >>

\* uint32_t a < b
u32_less(a, b) == a[1] < b[1] \/ (a[1] = b[1] /\ a[2] < b[2])

\* the same 32 bits read as a signed value
Signed(x) ==
    IF x[1] >= HALF \div 2 THEN (x[1] - HALF) * HALF + x[2] ELSE x[1] * HALF + x[2]

\* --------------------------------------------------------------- expand
\* g is [grid, count_revealed]; the result is g after expand(game, i, j)
RECURSIVE expand(_, _, _)
RECURSIVE expand_dirs(_, _, _, _, _)

\* expand that never recurses into the neighbours
expand_single(g, i, j) ==
    IF outside(i, j) THEN g
    ELSE IF \/ g.grid[<<i, j>>].type = "BOMB"
            \/ g.grid[<<i, j>>].is_revealed
            \/ g.grid[<<i, j>>].is_flagged THEN g
    ELSE [grid |-> [g.grid EXCEPT ![<<i, j>>].is_revealed = TRUE],
          count_revealed |-> g.count_revealed + 1]

\* expand without the test for a BOMB
expand_into_bombs(g, i, j) ==
    IF outside(i, j) THEN g
    ELSE IF \/ g.grid[<<i, j>>].is_revealed
            \/ g.grid[<<i, j>>].is_flagged THEN g
    ELSE LET g1 == [grid |-> [g.grid EXCEPT ![<<i, j>>].is_revealed = TRUE],
                    count_revealed |-> g.count_revealed + 1]
         IN  IF count_flagged_neighbors(g1.grid, i, j)
                  # count_bomb_neighbors(g1.grid, i, j)
             THEN g1
             ELSE expand_dirs(g1, i, j, dir4, 1)

\* expand that recurses whatever the two neighbour counts are
expand_always_recurses(g, i, j) ==
    IF outside(i, j) THEN g
    ELSE IF \/ g.grid[<<i, j>>].type = "BOMB"
            \/ g.grid[<<i, j>>].is_revealed
            \/ g.grid[<<i, j>>].is_flagged THEN g
    ELSE expand_dirs([grid |-> [g.grid EXCEPT ![<<i, j>>].is_revealed = TRUE],
                      count_revealed |-> g.count_revealed + 1], i, j, dir4, 1)

\* expand that marks the cell revealed without counting it
expand_uncounted(g, i, j) ==
    IF outside(i, j) THEN g
    ELSE IF \/ g.grid[<<i, j>>].type = "BOMB"
            \/ g.grid[<<i, j>>].is_revealed
            \/ g.grid[<<i, j>>].is_flagged THEN g
    ELSE LET g1 == [grid |-> [g.grid EXCEPT ![<<i, j>>].is_revealed = TRUE],
                    count_revealed |-> g.count_revealed]
         IN  IF count_flagged_neighbors(g1.grid, i, j)
                  # count_bomb_neighbors(g1.grid, i, j)
             THEN g1
             ELSE expand_dirs(g1, i, j, dir4, 1)

expand(g, i, j) ==
    IF outside(i, j) THEN g
    ELSE IF \/ g.grid[<<i, j>>].type = "BOMB"
            \/ g.grid[<<i, j>>].is_revealed
            \/ g.grid[<<i, j>>].is_flagged THEN g
    ELSE LET g1 == [grid |-> [g.grid EXCEPT ![<<i, j>>].is_revealed = TRUE],
                    count_revealed |-> g.count_revealed + 1]
         IN  IF count_flagged_neighbors(g1.grid, i, j)
                  # count_bomb_neighbors(g1.grid, i, j)
             THEN g1
             ELSE expand_dirs(g1, i, j, dir4, 1)

\* the loop "for dir in dirs: expand(game, i + dir[0], j + dir[1])" from index k
expand_dirs(g, i, j, dirs, k) ==
    IF k > Len(dirs) THEN g
    ELSE expand_dirs(expand(g, i + dirs[k][1], j + dirs[k][2]), i, j, dirs, k + 1)

\* ------------------------------------------------------------ try_reveal
\* result: [grid, count_revealed, move]
\* try_reveal reaches its loop over dir8: the cell is in the grid, not
\* flagged, not a BOMB, already revealed, and its two neighbour counts agree
takes_chord(g, i, j) ==
    /\ ~outside(i, j)
    /\ ~g[<<i, j>>].is_flagged
    /\ g[<<i, j>>].type # "BOMB"
    /\ g[<<i, j>>].is_revealed
    /\ count_flagged_neighbors(g, i, j) = count_bomb_neighbors(g, i, j)

\* try_reveal that counts the cell again after expand has counted it
try_reveal_recount(g, i, j) ==
    IF outside(i, j) THEN
        [grid |-> g.grid, count_revealed |-> g.count_revealed, move |-> "OutBounds"]
    ELSE IF g.grid[<<i, j>>].is_flagged THEN
        [grid |-> g.grid, count_revealed |-> g.count_revealed, move |-> "NA"]
    ELSE IF g.grid[<<i, j>>].type = "BOMB" THEN
        [grid |-> [g.grid EXCEPT ![<<i, j>>].is_revealed = TRUE],
         count_revealed |-> g.count_revealed, move |-> "LosingMove"]
    ELSE IF ~g.grid[<<i, j>>].is_revealed THEN
        LET e == expand(g, i, j)
        IN  [grid |-> [e.grid EXCEPT ![<<i, j>>].is_revealed = TRUE],
             count_revealed |-> e.count_revealed + 1, move |-> "Success"]
    ELSE IF count_flagged_neighbors(g.grid, i, j)
              # count_bomb_neighbors(g.grid, i, j) THEN
        [grid |-> g.grid, count_revealed |-> g.count_revealed, move |-> "Success"]
    ELSE
        LET e == expand_dirs(g, i, j, dir8, 1)
        IN  [grid |-> e.grid, count_revealed |-> e.count_revealed, move |-> "Success"]

\* try_reveal whose last loop runs over dir4 instead of dir8
try_reveal_chord4(g, i, j) ==
    IF outside(i, j) THEN
        [grid |-> g.grid, count_revealed |-> g.count_revealed, move |-> "OutBounds"]
    ELSE IF g.grid[<<i, j>>].is_flagged THEN
        [grid |-> g.grid, count_revealed |-> g.count_revealed, move |-> "NA"]
    ELSE IF g.grid[<<i, j>>].type = "BOMB" THEN
        [grid |-> [g.grid EXCEPT ![<<i, j>>].is_revealed = TRUE],
         count_revealed |-> g.count_revealed, move |-> "LosingMove"]
    ELSE IF ~g.grid[<<i, j>>].is_revealed THEN
        LET e == expand(g, i, j)
        IN  [grid |-> [e.grid EXCEPT ![<<i, j>>].is_revealed = TRUE],
             count_revealed |-> e.count_revealed, move |-> "Success"]
    ELSE IF count_flagged_neighbors(g.grid, i, j)
              # count_bomb_neighbors(g.grid, i, j) THEN
        [grid |-> g.grid, count_revealed |-> g.count_revealed, move |-> "Success"]
    ELSE
        LET e == expand_dirs(g, i, j, dir4, 1)
        IN  [grid |-> e.grid, count_revealed |-> e.count_revealed, move |-> "Success"]

\* try_reveal without the test of is_flagged
try_reveal_flagged(g, i, j) ==
    IF outside(i, j) THEN
        [grid |-> g.grid, count_revealed |-> g.count_revealed, move |-> "OutBounds"]
    ELSE IF g.grid[<<i, j>>].type = "BOMB" THEN
        [grid |-> [g.grid EXCEPT ![<<i, j>>].is_revealed = TRUE],
         count_revealed |-> g.count_revealed, move |-> "LosingMove"]
    ELSE IF ~g.grid[<<i, j>>].is_revealed THEN
        [grid |-> [g.grid EXCEPT ![<<i, j>>].is_revealed = TRUE],
         count_revealed |-> g.count_revealed + 1, move |-> "Success"]
    ELSE
        [grid |-> g.grid, count_revealed |-> g.count_revealed, move |-> "Success"]

try_reveal(g, i, j) ==
    IF outside(i, j) THEN
        [grid |-> g.grid, count_revealed |-> g.count_revealed, move |-> "OutBounds"]
    ELSE IF g.grid[<<i, j>>].is_flagged THEN
        [grid |-> g.grid, count_revealed |-> g.count_revealed, move |-> "NA"]
    ELSE IF g.grid[<<i, j>>].type = "BOMB" THEN
        [grid |-> [g.grid EXCEPT ![<<i, j>>].is_revealed = TRUE],
         count_revealed |-> g.count_revealed, move |-> "LosingMove"]
    ELSE IF ~g.grid[<<i, j>>].is_revealed THEN
        LET e == expand(g, i, j)
        IN  [grid |-> [e.grid EXCEPT ![<<i, j>>].is_revealed = TRUE],
             count_revealed |-> e.count_revealed, move |-> "Success"]
    ELSE IF count_flagged_neighbors(g.grid, i, j)
              # count_bomb_neighbors(g.grid, i, j) THEN
        [grid |-> g.grid, count_revealed |-> g.count_revealed, move |-> "Success"]
    ELSE
        LET e == expand_dirs(g, i, j, dir8, 1)
        IN  [grid |-> e.grid, count_revealed |-> e.count_revealed, move |-> "Success"]

\* ---------------------------------------------------------- try_set_flag
\* g is [grid, count_flagged]; result: [grid, count_flagged, move]
\* try_set_flag without the test of is_revealed
try_set_flag_unchecked(g, i, j, value) ==
    IF outside(i, j) THEN
        [grid |-> g.grid, count_flagged |-> g.count_flagged, move |-> "OutBounds"]
    ELSE
        [grid |-> [g.grid EXCEPT ![<<i, j>>].is_flagged = value],
         count_flagged |-> IF value THEN u32_add(g.count_flagged, u32(1))
                                    ELSE u32_sub(g.count_flagged, u32(1)),
         move |-> "Success"]

try_set_flag(g, i, j, value) ==
    IF outside(i, j) THEN
        [grid |-> g.grid, count_flagged |-> g.count_flagged, move |-> "OutBounds"]
    ELSE IF g.grid[<<i, j>>].is_revealed THEN
        [grid |-> g.grid, count_flagged |-> g.count_flagged, move |-> "NA"]
    ELSE
        [grid |-> [g.grid EXCEPT ![<<i, j>>].is_flagged = value],
         count_flagged |-> IF value THEN u32_add(g.count_flagged, u32(1))
                                    ELSE u32_sub(g.count_flagged, u32(1)),
         move |-> "Success"]

\* ------------------------------------------------------------------ Init
\* Game::Game and fill_grid: every cell is a BOMB or EMPTY by an independent
\* draw, count_bombs counts the BOMBs; first_move is not initialised by the
\* constructor, so its first value is either boolean.
Init ==
    /\ \E bombs \in SUBSET Cells :
         /\ grid = [c \in Cells |-> Cell(IF c \in bombs THEN "BOMB" ELSE "EMPTY")]
         /\ count_bombs = Card(bombs)
    /\ count_flagged = u32(0)
    /\ count_revealed = 0
    /\ first_move \in BOOLEAN
    /\ state = "ACTIVE"
    /\ pc = "prompt"
    /\ verb = "none"
    /\ remaining = 0
    /\ place = <<0, 0>>
    /\ result = "none"
    /\ chord = FALSE
    /\ printed = "none"
    /\ oob_write = FALSE
    /\ no_reveal_yet = TRUE

\* --------------------------------------------------------------- actions
\* accept_input reads "flag|unflag|reveal i1 j1 ... in jn": the handler's
\* loop starts with n pairs to process.
ReadCoordCommand ==
    /\ pc = "prompt"
    /\ state = "ACTIVE"
    /\ \E v \in {"flag", "unflag", "reveal"}, n \in 1 .. MaxPairs :
         /\ v = "flag" => Signed(count_flagged) + n <= MaxFlagged
         /\ v = "unflag" => Signed(count_flagged) - n >= 0 - MaxFlagged
         /\ verb' = v
         /\ remaining' = n
    /\ pc' = "cmd"
    /\ result' = "none"
    /\ chord' = FALSE
    /\ place' = <<0, 0>>
    /\ printed' = "none"
    /\ UNCHANGED << grid, count_bombs, count_flagged, count_revealed,
                    first_move, state, oob_write, no_reveal_yet >>

\* where main continues after one pair of a flag/unflag command
AfterFlag(rem) == IF rem > 1 THEN "cmd" ELSE "check"

\* one iteration of the loop of flag(game, command, value)
FlagStep ==
    /\ pc = "cmd"
    /\ verb \in {"flag", "unflag"}
    /\ \E p \in Places :
         LET r == try_set_flag([grid |-> grid, count_flagged |-> count_flagged],
                               p[1], p[2], verb = "flag")
         IN  /\ grid' = r.grid
             /\ count_flagged' = r.count_flagged
             /\ result' = r.move
             /\ chord' = FALSE
             /\ place' = p
    /\ remaining' = remaining - 1
    /\ pc' = AfterFlag(remaining)
    /\ UNCHANGED << count_bombs, count_revealed, first_move, state, verb,
                    printed, oob_write, no_reveal_yet >>

\* the first-move rule of reveal: "game.grid[i][j].type = CellType::EMPTY" is
\* executed before any bounds test.  For a pair inside the grid it clears that
\* cell's type.  For a pair outside the grid the store lands outside the
\* vectors: it may hit nothing the game reads, or the type of some cell of
\* the grid (the rows are adjacent heap blocks of 8-byte cells).
first_move_grids(g, p) ==
    IF outside(p[1], p[2])
    THEN {g} \cup { [g EXCEPT ![c].type = "EMPTY"] : c \in Cells }
    ELSE { [g EXCEPT ![p].type = "EMPTY"] }

\* a reveal loop that does not return on LosingMove
AfterReveal_NoReturn(move, rem) == IF rem > 1 THEN "cmd" ELSE "check"

\* where main continues after one pair of a reveal command
AfterReveal(move, rem) ==
    IF move = "LosingMove" THEN "check"
    ELSE IF rem > 1 THEN "cmd" ELSE "check"

\* Game::state after one pair of a reveal command
StateAfterReveal(move, st) == IF move = "LosingMove" THEN "OVER" ELSE st

\* one iteration of the loop of reveal(game, command)
RevealStep ==
    /\ pc = "cmd"
    /\ verb = "reveal"
    /\ \E p \in Places :
         \E g0 \in (IF first_move THEN first_move_grids(grid, p) ELSE {grid}) :
           LET r == try_reveal([grid |-> g0, count_revealed |-> count_revealed],
                               p[1], p[2])
           IN  /\ grid' = r.grid
               /\ count_revealed' = r.count_revealed
               /\ result' = r.move
               /\ chord' = takes_chord(g0, p[1], p[2])
               /\ place' = p
               /\ state' = StateAfterReveal(r.move, state)
               /\ pc' = AfterReveal(r.move, remaining)
               /\ oob_write' = (oob_write \/ (first_move /\ outside(p[1], p[2])))
    /\ first_move' = FALSE
    /\ no_reveal_yet' = FALSE
    /\ remaining' = remaining - 1
    /\ UNCHANGED << count_bombs, count_flagged, verb, printed >>

\* the same iteration when the first-move store outside the grid faults
RevealCrash ==
    /\ pc = "cmd"
    /\ verb = "reveal"
    /\ first_move
    /\ \E p \in OutPlaces : place' = p
    /\ oob_write' = TRUE
    /\ pc' = "crash"
    /\ UNCHANGED << grid, count_bombs, count_flagged, count_revealed, first_move,
                    state, verb, remaining, result, chord, printed, no_reveal_yet >>

\* Game::restart as a function of the grid
\* a restart that forgets the is_revealed bits
restart_keeps_revealed(g) == [c \in Cells |-> [g[c] EXCEPT !.is_flagged = FALSE]]

restart(g) == [c \in Cells |-> [g[c] EXCEPT !.is_flagged = FALSE, !.is_revealed = FALSE]]

\* the "restart" command
Restart ==
    /\ pc = "prompt"
    /\ state = "ACTIVE"
    /\ first_move' = TRUE
    /\ state' = "ACTIVE"
    /\ count_flagged' = u32(0)
    /\ count_revealed' = 0
    /\ grid' = restart(grid)
    /\ no_reveal_yet' = TRUE
    /\ verb' = "restart"
    /\ pc' = "check"
    /\ remaining' = 0
    /\ result' = "none"
    /\ chord' = FALSE
    /\ place' = <<0, 0>>
    /\ printed' = "none"
    /\ UNCHANGED << count_bombs, oob_write >>

\* std::max(game.count_bombs - game.count_flagged, 0u) on uint32_t operands
print_bombs_left(cb, cf) ==
    LET d == u32_sub(u32(cb), cf) IN IF u32_less(d, u32(0)) THEN u32(0) ELSE d

\* the "bombs_left?" command
BombsLeft ==
    /\ pc = "prompt"
    /\ state = "ACTIVE"
    /\ printed' = print_bombs_left(count_bombs, count_flagged)
    /\ verb' = "bombs_left"
    /\ pc' = "check"
    /\ remaining' = 0
    /\ result' = "none"
    /\ chord' = FALSE
    /\ place' = <<0, 0>>
    /\ UNCHANGED << grid, count_bombs, count_flagged, count_revealed, first_move,
                    state, oob_write, no_reveal_yet >>

\* "help", and any line accept_input or a handler does not accept
Help ==
    /\ pc = "prompt"
    /\ state = "ACTIVE"
    /\ verb' = "help"
    /\ pc' = "check"
    /\ remaining' = 0
    /\ result' = "none"
    /\ chord' = FALSE
    /\ place' = <<0, 0>>
    /\ printed' = "none"
    /\ UNCHANGED << grid, count_bombs, count_flagged, count_revealed, first_move,
                    state, oob_write, no_reveal_yet >>

\* the "exit" command: exit(0)
Exit ==
    /\ pc = "prompt"
    /\ state = "ACTIVE"
    /\ verb' = "exit"
    /\ pc' = "exit"
    /\ remaining' = 0
    /\ result' = "none"
    /\ chord' = FALSE
    /\ place' = <<0, 0>>
    /\ printed' = "none"
    /\ UNCHANGED << grid, count_bombs, count_flagged, count_revealed, first_move,
                    state, oob_write, no_reveal_yet >>

\* main, after prompt returns: "if (is_won(game)) state = OVER" and the loop
\* test "while (game.state != GameState::OVER)"
CheckWon ==
    /\ pc = "check"
    /\ state' = (IF is_won THEN "OVER" ELSE state)
    /\ IF state' = "OVER"
       THEN /\ pc' = "exit"
            /\ UNCHANGED << verb, remaining, place, result, chord, printed >>
       ELSE /\ pc' = "prompt"
            /\ verb' = "none"
            /\ remaining' = 0
            /\ place' = <<0, 0>>
            /\ result' = "none"
            /\ chord' = FALSE
            /\ printed' = "none"
    /\ UNCHANGED << grid, count_bombs, count_flagged, count_revealed, first_move,
                    oob_write, no_reveal_yet >>

Next ==
    \/ ReadCoordCommand
    \/ FlagStep
    \/ RevealStep
    \/ RevealCrash
    \/ Restart
    \/ BombsLeft
    \/ Help
    \/ Exit
    \/ CheckWon

Spec == Init /\ [][Next]_vars

TypeOK ==
    /\ grid \in [Cells -> [type : {"EMPTY", "BOMB"}, is_flagged : BOOLEAN, is_revealed : BOOLEAN]]
    /\ count_bombs \in 0 .. Rows * Cols
    /\ count_flagged \in (0 .. HALF - 1) \X (0 .. HALF - 1)
    /\ count_revealed \in 0 .. Rows * Cols
    /\ first_move \in BOOLEAN
    /\ state \in {"ACTIVE", "OVER"}
    /\ pc \in {"prompt", "cmd", "check", "exit", "crash"}
    /\ remaining \in 0 .. MaxPairs
    /\ place \in Places
    /\ result \in {"none", "Success", "NA", "LosingMove", "OutBounds"}
    /\ chord \in BOOLEAN

\* ------------------------------------------------------ derived quantities
NumFlagged == Card({ c \in Cells : grid[c].is_flagged })
NumRevealed == Card({ c \in Cells : grid[c].is_revealed })
NumRevealedEmpty == Card({ c \in Cells : grid[c].is_revealed /\ grid[c].type = "EMPTY" })
NumBombs == Card({ c \in Cells : grid[c].type = "BOMB" })

\* the step being taken processes one coordinate pair of a reveal command
RevealRequest == pc = "cmd" /\ verb = "reveal"
\* the step being taken processes one coordinate pair of a flag or unflag command
FlagRequest == pc = "cmd" /\ verb \in {"flag", "unflag"}

\* ------------------------------------------------------------------ claims

\* C1: in every reachable state count_flagged equals the number of cells
\* whose is_flagged bit is true.
C1_FlaggedCountMatches == count_flagged = u32(NumFlagged)

\* C2 (as claimed): in every reachable state count_revealed equals the number
\* of cells whose is_revealed bit is true, also right after a losing reveal.
C2_RevealedCountMatches == count_revealed = NumRevealed

\* C2 (amended): in every reachable state count_revealed equals the number of
\* EMPTY cells whose is_revealed bit is true; the BOMB a losing reveal marks
\* revealed is not counted.
C2_RevealedCountsEmpty ==
    /\ count_revealed = NumRevealedEmpty
    /\ (result = "LosingMove" => NumRevealed = count_revealed + 1)

C2_Witness ==
    /\ result = "LosingMove"
    /\ count_revealed > 0
    /\ grid[place].type = "BOMB"
    /\ grid[place].is_revealed

\* C3: in every reachable state is_won holds exactly when every EMPTY cell is
\* revealed.
C3_WonIffAllEmptyRevealed ==
    is_won <=> (\A c \in Cells : grid[c].type = "EMPTY" => grid[c].is_revealed)

\* C4: the first reveal request of a game never returns LosingMove.
C4_FirstRevealNeverLoses ==
    [][(RevealRequest /\ no_reveal_yet) => result' # "LosingMove"]_vars

\* C5: a reveal or flag request whose pair is outside the grid yields
\* OutBounds, writes nothing outside the grid and leaves every cell and the
\* three counters unchanged.
C5_OutOfBoundsIsHarmless ==
    [][((RevealRequest \/ FlagRequest) /\ outside(place'[1], place'[2]))
         => (result' = "OutBounds" /\ ~oob_write' /\ UNCHANGED game)]_vars

\* C6: a reveal request on a flagged cell returns NA and changes no cell and
\* no counter.
C6_RevealFlaggedChangesNothing ==
    [][(RevealRequest /\ ~outside(place'[1], place'[2]) /\ grid[place'].is_flagged)
         => (result' = "NA" /\ UNCHANGED game)]_vars

\* C7: the number print_bombs_left writes is max(count_bombs - count_flagged, 0)
\* over the integers: 0 when count_flagged >= count_bombs, the difference
\* otherwise.  Stated for the games in which count_flagged is the number of
\* flagged cells, where its integer value is not in question.
C7_BombsLeftIsClampedDifference ==
    (verb = "bombs_left" /\ pc = "check" /\ count_flagged = u32(NumFlagged)) =>
        printed = IF NumFlagged >= count_bombs
                  THEN u32(0)
                  ELSE u32(count_bombs - NumFlagged)

\* C8: a reveal that returns LosingMove sets state to OVER; while state is
\* OVER no step changes a cell or a counter; state leaves OVER only by a
\* restart, which makes it ACTIVE.
C8_OverIsTerminal ==
    [][/\ (RevealRequest /\ result' = "LosingMove") => state' = "OVER"
       /\ state = "OVER" => UNCHANGED game
       /\ (state = "OVER" /\ state' # "OVER") => (verb' = "restart" /\ state' = "ACTIVE")
      ]_vars

C8_Witness ==
    /\ state = "OVER"
    /\ result = "LosingMove"
    /\ remaining > 0

\* C9: once a successful reveal has made is_won true, state is OVER before
\* another coordinate pair is processed.
C9_WinEndsGameAtOnce ==
    (verb = "reveal" /\ result = "Success" /\ is_won /\ pc = "cmd") => state = "OVER"

\* C10: a flag or unflag request on a revealed cell returns NA and changes
\* neither count_flagged nor that cell's flag.
C10_FlagRevealedRejected ==
    [][(FlagRequest /\ ~outside(place'[1], place'[2]) /\ grid[place'].is_revealed)
         => /\ result' = "NA"
            /\ count_flagged' = count_flagged
            /\ grid'[place'].is_flagged = grid[place'].is_flagged]_vars

C10_Witness ==
    /\ verb \in {"flag", "unflag"}
    /\ result = "NA"
    /\ grid[place].is_revealed

\* C11: in every reachable state no cell is both flagged and revealed.
C11_NeverFlaggedAndRevealed ==
    \A c \in Cells : ~(grid[c].is_flagged /\ grid[c].is_revealed)

\* a reveal has just been rejected on a flagged cell while other cells are
\* revealed next to it
C11_Witness ==
    /\ verb = "reveal"
    /\ result = "NA"
    /\ grid[place].is_flagged
    /\ NumRevealed > 0

\* the step being taken is the restart command
RestartRequest == pc = "prompt" /\ verb' = "restart"

\* C12: restart clears every cell's is_flagged and is_revealed, zeroes
\* count_flagged and count_revealed, sets state ACTIVE and first_move true, and
\* leaves every cell's type, the grid's dimensions and count_bombs unchanged.
C12_RestartFrame ==
    [][RestartRequest =>
         /\ \A c \in Cells : ~grid'[c].is_flagged /\ ~grid'[c].is_revealed
         /\ count_flagged' = u32(0)
         /\ count_revealed' = 0
         /\ state' = "ACTIVE"
         /\ first_move' = TRUE
         /\ DOMAIN grid' = DOMAIN grid
         /\ \A c \in Cells : grid'[c].type = grid[c].type
         /\ count_bombs' = count_bombs]_vars

\* a restart has run in a game whose first-move rule had removed a BOMB and
\* whose flag counter had been moved
C12_Witness ==
    /\ verb = "restart"
    /\ pc = "check"
    /\ count_bombs # NumBombs
    /\ oob_write

\* --------------------------------------------- reveal requests, in detail
InGrid(p) == ~outside(p[1], p[2])

\* the 8-neighbours of cell c
Around(c) == { d \in Cells : d # c /\ d[1] - c[1] \in {0 - 1, 0, 1} /\ d[2] - c[2] \in {0 - 1, 0, 1} }

\* cells a and b are orthogonal neighbours
Adjacent4(a, b) ==
    \/ (a[1] = b[1] /\ (a[2] - b[2] = 1 \/ b[2] - a[2] = 1))
    \/ (a[2] = b[2] /\ (a[1] - b[1] = 1 \/ b[1] - a[1] = 1))

\* an EMPTY cell without a BOMB among its neighbours
ZeroCell(g, c) == g[c].type = "EMPTY" /\ count_bomb_neighbors(g, c[1], c[2]) = 0

\* the cells joined to S by orthogonal steps through such cells
RECURSIVE RegionFrom(_, _)
RegionFrom(g, S) ==
    LET T == S \cup { d \in Cells : ZeroCell(g, d) /\ \E s \in S : Adjacent4(s, d) }
    IN  IF T = S THEN S ELSE RegionFrom(g, T)

Region(g, c) == RegionFrom(g, {c})

\* the grid try_reveal is given for the in-grid pair p: the first-move rule
\* has been applied
GridRevealed(p) == IF first_move THEN [grid EXCEPT ![p].type = "EMPTY"] ELSE grid

\* the step being taken is a reveal request that calls expand on cell p
\* (try_reveal, lines 197-201)
ExpandInvoked(p) ==
    /\ RevealRequest
    /\ InGrid(p)
    /\ ~grid[p].is_flagged
    /\ ~grid[p].is_revealed
    /\ GridRevealed(p)[p].type = "EMPTY"

\* the step being taken is a reveal request on the revealed cell p whose two
\* neighbour counts agree (try_reveal, lines 203-212)
ChordInvoked(p) ==
    /\ RevealRequest
    /\ InGrid(p)
    /\ grid[p].is_revealed
    /\ ~grid[p].is_flagged
    /\ GridRevealed(p)[p].type = "EMPTY"
    /\ count_flagged_neighbors(GridRevealed(p), p[1], p[2])
         = count_bomb_neighbors(GridRevealed(p), p[1], p[2])

\* C13 (as claimed): after expand is called on a cell of a 4-connected region
\* of EMPTY cells without BOMB neighbours, every cell of the region is
\* revealed, wherever the flags are.
C13_RegionRevealed ==
    [][(ExpandInvoked(place') /\ ZeroCell(GridRevealed(place'), place'))
         => \A d \in Region(GridRevealed(place'), place') : grid'[d].is_revealed]_vars

\* C13 (amended): the same when, before the call, no cell of the region is
\* revealed, none is flagged and none has a flagged neighbour.
C13_UntouchedRegionRevealed ==
    [][(/\ ExpandInvoked(place')
        /\ ZeroCell(GridRevealed(place'), place')
        /\ \A d \in Region(GridRevealed(place'), place') :
             /\ ~grid[d].is_revealed
             /\ ~grid[d].is_flagged
             /\ count_flagged_neighbors(grid, d[1], d[2]) = 0)
         => \A d \in Region(GridRevealed(place'), place') : grid'[d].is_revealed]_vars

\* a reveal has just opened a region of more than one cell
C13_Witness ==
    /\ verb = "reveal"
    /\ result = "Success"
    /\ InGrid(place)
    /\ ZeroCell(grid, place)
    /\ Card(Region(grid, place)) > 1
    /\ \A d \in Region(grid, place) : grid[d].is_revealed
    /\ NumFlagged = 0
    /\ count_revealed = Card(Region(grid, place))

\* C14: a BOMB cell's is_revealed bit becomes true only in a reveal request
\* on that very cell, which returns LosingMove; flood expansion and the loop
\* over dir8 never reveal a BOMB.
C14_BombRevealedOnlyDirectly ==
    [][\A c \in Cells :
         (grid'[c].type = "BOMB" /\ grid'[c].is_revealed /\ ~grid[c].is_revealed)
           => (RevealRequest /\ place' = c /\ result' = "LosingMove")]_vars

\* the loop over dir8 has just run around a cell with an unflagged BOMB
\* neighbour (the flags sit on other cells), and the BOMB is still hidden
C14_Witness ==
    /\ chord
    /\ result = "Success"
    /\ \E d \in Around(place) :
         grid[d].type = "BOMB" /\ ~grid[d].is_flagged /\ ~grid[d].is_revealed
    /\ \E d \in Around(place) : grid[d].type = "EMPTY" /\ grid[d].is_flagged

\* C15 (as claimed): a reveal request on a revealed cell whose flagged
\* neighbours are as many as its BOMB neighbours returns Success and leaves
\* every neighbour that was neither flagged nor revealed revealed.
C15_ChordRevealsAllOthers ==
    [][ChordInvoked(place') =>
         /\ result' = "Success"
         /\ \A d \in Around(place') :
              (~grid[d].is_flagged /\ ~grid[d].is_revealed) => grid'[d].is_revealed]_vars

\* C15 (amended): ... leaves every EMPTY neighbour that was neither flagged
\* nor revealed revealed; an unflagged BOMB neighbour stays hidden.
C15_ChordRevealsEmptyOthers ==
    [][ChordInvoked(place') =>
         /\ result' = "Success"
         /\ \A d \in Around(place') :
              (~grid[d].is_flagged /\ ~grid[d].is_revealed) =>
                 (grid'[d].is_revealed <=> grid[d].type = "EMPTY")]_vars

\* the loop over dir8 has just run around a cell with a flagged BOMB
\* neighbour and has revealed more than that cell
C15_Witness ==
    /\ chord
    /\ result = "Success"
    /\ count_bomb_neighbors(grid, place[1], place[2]) > 0
    /\ \E d \in Around(place) : grid[d].type = "BOMB" /\ grid[d].is_flagged
    /\ \A d \in Around(place) : grid[d].type = "EMPTY" => grid[d].is_revealed
    /\ \A d \in Around(place) : grid[d].type = "BOMB" => grid[d].is_flagged

\* C16: on a grid without BOMBs, flags and revealed cells, one reveal of a
\* cell of the grid returns Success, reveals every cell, makes count_revealed
\* Rows * Cols and makes is_won true.  Stated for the runs in which no store
\* outside the grid has happened.
C16_EmptyGridWonByOneReveal ==
    [][(/\ RevealRequest /\ InGrid(place') /\ ~oob_write
        /\ NumBombs = 0 /\ NumFlagged = 0 /\ NumRevealed = 0)
         => /\ result' = "Success"
            /\ \A c \in Cells : grid'[c].is_revealed
            /\ count_revealed' = Rows * Cols
            /\ is_won']_vars

\* C17: a reveal of a hidden, unflagged EMPTY cell whose flagged-neighbour
\* count differs from its BOMB-neighbour count returns Success, reveals that
\* cell and no other, and raises count_revealed by exactly 1.
C17_BoundaryCellRevealedAlone ==
    [][(/\ ExpandInvoked(place')
        /\ grid[place'].type = "EMPTY"
        /\ count_flagged_neighbors(grid, place'[1], place'[2])
             # count_bomb_neighbors(grid, place'[1], place'[2]))
         => /\ result' = "Success"
            /\ grid' = [grid EXCEPT ![place'].is_revealed = TRUE]
            /\ count_revealed' = count_revealed + 1]_vars

\* a cell next to a BOMB and to no flag has just been revealed, alone, while
\* a hidden EMPTY cell is orthogonally next to it
C17_Witness ==
    /\ verb = "reveal"
    /\ result = "Success"
    /\ ~chord
    /\ grid[place].is_revealed
    /\ NumRevealed = 1
    /\ count_bomb_neighbors(grid, place[1], place[2]) > 0
    /\ count_flagged_neighbors(grid, place[1], place[2]) = 0
    /\ \E d \in Cells : Adjacent4(place, d) /\ grid[d].type = "EMPTY" /\ ~grid[d].is_revealed

\* C18: in one reveal request no revealed cell is hidden again, and
\* count_revealed rises by the number of EMPTY cells the request newly
\* reveals, each counted once, hence by at most the number of cells that were
\* hidden before it.  (That every call of expand returns is what lets TLC
\* compute the successor of every reveal request at all.)
C18_EachCellCountedOnce ==
    [][RevealRequest =>
         LET new == { c \in Cells : grid'[c].is_revealed /\ ~grid[c].is_revealed }
         IN  /\ \A c \in Cells : grid[c].is_revealed => grid'[c].is_revealed
             /\ count_revealed' - count_revealed
                  = Card({ c \in new : grid'[c].type = "EMPTY" })
             /\ count_revealed' - count_revealed
                  <= Card({ c \in Cells : ~grid[c].is_revealed })]_vars

\* one reveal has just revealed the whole grid, whose cells are reached by
\* the recursion along more than one path
C18_Witness ==
    /\ verb = "reveal"
    /\ result = "Success"
    /\ ~chord
    /\ pc = "check"
    /\ NumRevealed = Rows * Cols
    /\ count_revealed = Rows * Cols

\* C19: in every reachable state count_bombs equals the number of BOMB cells.
\* Stated for the runs in which no store outside the grid has happened.
C19_BombCountMatches == ~oob_write => count_bombs = NumBombs

\* C20: no reachable state has is_won true while a BOMB cell is revealed.
\* Stated for the grids generated with at least one EMPTY cell, on which
\* is_won is false when the game starts.
C20_WinExcludesLoss ==
    count_bombs < Rows * Cols =>
        ~(is_won /\ \E c \in Cells : grid[c].type = "BOMB" /\ grid[c].is_revealed)

====
